---- MODULE Spec2Model ----
(***************************************************************************)
(* Kenya car import cost calculator (src/car_import_calculator.py).        *)
(*                                                                         *)
(* Five specifications share this module:                                  *)
(*   SpecFn  calculate_total_costs, statement by statement, called with    *)
(*           arguments drawn from bounded sets (valid and invalid ones);   *)
(*   Spec    the Streamlit form of main(): the input widgets and the       *)
(*           "Calculate Total Import Cost" button handler;                 *)
(*   SpecLib the helper functions load_crsp_file, search_crsp and          *)
(*           estimate_car_value, each called with arguments drawn from     *)
(*           bounded sets;                                                 *)
(*   SpecCrsp   the session around the reference table: uploads, the make  *)
(*           and model fields and the selectbox of CRSP matches;           *)
(*   SpecScrape the session around the link scrape: the prefill it stores, *)
(*           the year and FOB fields and the Calculate button.             *)
(*                                                                         *)
(* Money is an exact decimal with six fractional digits, held as a record  *)
(* [w |-> whole units, u |-> millionths, 0..999999], so that every rate    *)
(* of the program (0.25, 0.20..0.35, 0.16, 0.0225, 0.02) applied to a      *)
(* whole-dollar CIF is represented without loss and without leaving the    *)
(* 32-bit integers of the model checker.  Engine displacement is held in   *)
(* tenths of a litre (the step of the form's engine-size field).           *)
(***************************************************************************)
EXTENDS Integers, Sequences, FiniteSets, TLC

VARIABLES
    pc,            \* position inside calculate_total_costs ("idle" outside a call)
    frame,         \* the call's arguments and assigned local names -> values
    ret,           \* the returned pair <<costs, warning>>, <<>> before the return
    current_year,  \* datetime.now().year
    make_text,     \* text typed in the Make field (sequence of characters)
    model_text,    \* text typed in the Model field
    year,          \* "Year of Manufacture" field
    engine_size,   \* "Engine Size" field, tenths of a litre
    fob_input,     \* "FOB Value (USD)" field, whole dollars
    freight_cost,  \* "Freight Cost (USD)" field, whole dollars
    insurance_cost,\* "Insurance Cost (USD)" field, whole dollars
    auto_estimate, \* the "Auto-estimate FOB value" checkbox
    summary_data,  \* st.session_state.summary_data (None until first stored)
    rendered,      \* what the last script run put on the page, in order
    raised,        \* TRUE when the last script run ended in an uncaught exception
    uploaded_file, \* the dataframe read from the file in the uploader, or None
    crsp_data,     \* st.session_state.crsp_data
    selected_car,  \* st.session_state.selected_car
    scraped_data,  \* st.session_state.scraped_data
    selectbox_index, \* position chosen in ["None"] + match_options, from 0
    empty_inputs,  \* the number inputs left empty (their value is None)
    call           \* SpecLib: the last call of a helper function and its result

fnvars  == <<pc, frame, ret, call>>
appvars == <<current_year, make_text, model_text, year, engine_size, fob_input,
             freight_cost, insurance_cost, auto_estimate, summary_data,
             rendered, raised, uploaded_file, crsp_data, selected_car,
             scraped_data, selectbox_index, empty_inputs>>
vars    == <<pc, frame, ret, current_year, make_text, model_text, year,
             engine_size, fob_input, freight_cost, insurance_cost,
             auto_estimate, summary_data, rendered, raised, uploaded_file,
             crsp_data, selected_car, scraped_data, selectbox_index,
             empty_inputs, call>>

-----------------------------------------------------------------------------
(* Bounds of the model *)

\* Largest vehicle age handed to calculate_total_costs in SpecFn (ages -1..MaxAge)
MaxAge == 10

\* Earliest and latest calendar year in which the session may run (Spec)
MinCurrentYear == 2025
MaxCurrentYear == 2026

-----------------------------------------------------------------------------
(* Python values *)

\* None in a slot that otherwise holds a dict or a number
None == [none |-> TRUE]

\* None in a slot that otherwise holds a str
NoWarning == "None"

-----------------------------------------------------------------------------
(* Exact decimal arithmetic *)

Million == 1000 * 1000

\* the whole amount n
Dollars(n) == [w |-> n, u |-> 0]

\* carry millionths into the whole part
Norm(w, u) == [w |-> w + (u \div Million), u |-> u % Million]

\* a + b
Add(a, b) == Norm(a.w + b.w, a.u + b.u)

\* a * num / den, for den a divisor of one million
Times(a, num, den) ==
    LET W == a.w * num
        U == a.u * num
    IN  Norm(W \div den, (W % den) * (Million \div den) + (U \div den))

\* a < b
Less(a, b) == a.w < b.w \/ (a.w = b.w /\ a.u < b.u)

\* a <= 0
NonPositive(a) == a.w < 0 \/ (a.w = 0 /\ a.u = 0)


-----------------------------------------------------------------------------
(* The duty and levy functions.  A rate r of the source is written as the  *)
(* pair num, den with r = num/den.                                          *)

WarnOver8 == " Vehicles over 8 years old cannot be imported into Kenya"
WarnOver3 == " Only vehicles 3 years old or newer can be imported"

\* calculate_customs_duty with the eligibility bound off by one (age <= 8)
calculate_customs_duty_off_by_one(cif_value, vehicle_age) ==
    IF vehicle_age > 8 THEN <<Dollars(0), WarnOver8>>
    ELSE IF vehicle_age <= 8 THEN <<Times(cif_value, 25, 100), NoWarning>>
    ELSE <<Dollars(0), WarnOver3>>

\* calculate_customs_duty: the pair <<duty, warning>>
calculate_customs_duty(cif_value, vehicle_age) ==
    IF vehicle_age > 8 THEN <<Dollars(0), WarnOver8>>
    ELSE IF vehicle_age <= 7 THEN <<Times(cif_value, 25, 100), NoWarning>>
    ELSE <<Dollars(0), WarnOver3>>

\* the excise tiers with strict comparisons (boundaries in the higher tier)
excise_rate_of_strict(engine) ==
    IF engine < 15 THEN 20
    ELSE IF engine < 20 THEN 25
    ELSE IF engine < 25 THEN 30
    ELSE 35

\* the rate chosen by calculate_excise_duty, in percent (rate * 100)
excise_rate_of(engine) ==
    IF engine <= 15 THEN 20
    ELSE IF engine <= 20 THEN 25
    ELSE IF engine <= 25 THEN 30
    ELSE 35

\* calculate_excise_duty: the pair <<duty, rate * 100>>
calculate_excise_duty(cif_value, engine) ==
    <<Times(cif_value, excise_rate_of(engine), 100), excise_rate_of(engine)>>

\* calculate_vat with the excise duty left out of the taxable value
calculate_vat_no_excise(cif_value, customs_duty, excise_duty) ==
    Times(Add(cif_value, customs_duty), 16, 100)

\* calculate_vat: 16% of (CIF + customs duty + excise duty)
calculate_vat(cif_value, customs_duty, excise_duty) ==
    LET taxable_value == Add(Add(cif_value, customs_duty), excise_duty)
    IN  Times(taxable_value, 16, 100)

\* calculate_idf: 2.25% of (CIF + customs duty)
calculate_idf(cif_value, customs_duty) ==
    Times(Add(cif_value, customs_duty), 225, 10000)

\* calculate_rail_levy at 1.5% instead of 2%
calculate_rail_levy_15(cif_value) == Times(cif_value, 15, 1000)

\* calculate_rail_levy: 2% of CIF
calculate_rail_levy(cif_value) == Times(cif_value, 2, 100)

-----------------------------------------------------------------------------
(* The statements of calculate_total_costs *)

clearing_agent_fee   == 25000
transport_to_nairobi == 15000
port_charges         == 10000
inspection_fee       == 8000
number_plate         == 3000
exchange_rate        == 129

\* the CIF sum with the FOB value left out
cif_of_no_fob(fob, freight, insurance) == Add(insurance, freight)

\* cif_value = fob_value + insurance_cost + freight_cost
cif_of(fob, freight, insurance) == Add(Add(fob, insurance), freight)

\* the statutory total with the railway levy left out
statutory_taxes_of_no_levy(customs_duty, excise_duty, vat, idf, rail_levy) ==
    Add(Add(Add(customs_duty, excise_duty), vat), idf)

\* total_statutory_taxes = customs_duty + excise_duty + vat + idf + rail_levy
statutory_taxes_of(customs_duty, excise_duty, vat, idf, rail_levy) ==
    Add(Add(Add(Add(customs_duty, excise_duty), vat), idf), rail_levy)

\* total_other_fees: the sum of the five flat fees, in KES
other_fees_of(clearing, transport, port, inspection, plate) ==
    Dollars(clearing + transport + port + inspection + plate)

\* the grand total with the flat fees converted like the USD amounts
grand_total_of_fees_converted(cif_value, total_statutory_taxes, rate, total_other_fees) ==
    Add(Add(Times(cif_value, rate, 1), Times(total_statutory_taxes, rate, 1)),
        Times(total_other_fees, rate, 1))

\* grand_total_kes = cif * rate + taxes * rate + other fees
grand_total_of(cif_value, total_statutory_taxes, rate, total_other_fees) ==
    Add(Add(Times(cif_value, rate, 1), Times(total_statutory_taxes, rate, 1)),
        total_other_fees)

\* the dict returned on success, built from the call's local names
costs_dict(f) ==
    [fob_value             |-> f.fob_value,
     freight_cost          |-> f.freight_cost,
     insurance_cost        |-> f.insurance_cost,
     cif_value             |-> f.cif_value,
     customs_duty          |-> f.customs_duty,
     excise_duty           |-> f.excise_duty,
     excise_rate           |-> f.excise_rate,
     vat                   |-> f.vat,
     idf                   |-> f.idf,
     rail_levy             |-> f.rail_levy,
     total_statutory_taxes |-> f.total_statutory_taxes,
     clearing_agent_fee    |-> f.clearing_agent_fee,
     transport_to_nairobi  |-> f.transport_to_nairobi,
     port_charges          |-> f.port_charges,
     inspection_fee        |-> f.inspection_fee,
     number_plate          |-> f.number_plate,
     total_other_fees      |-> f.total_other_fees,
     grand_total_kes       |-> f.grand_total_kes,
     exchange_rate         |-> f.exchange_rate]

\* calculate_total_costs as one function: the pair <<costs, warning>>
calculate_total_costs(fob, freight, insurance, age, engine) ==
    LET cif  == cif_of(fob, freight, insurance)
        cd   == calculate_customs_duty(cif, age)
        ed   == calculate_excise_duty(cif, engine)
        v    == calculate_vat(cif, cd[1], ed[1])
        i    == calculate_idf(cif, cd[1])
        r    == calculate_rail_levy(cif)
        tst  == statutory_taxes_of(cd[1], ed[1], v, i, r)
        tof  == other_fees_of(clearing_agent_fee, transport_to_nairobi,
                              port_charges, inspection_fee, number_plate)
        f    == [fob_value |-> fob, freight_cost |-> freight,
                 insurance_cost |-> insurance, cif_value |-> cif,
                 customs_duty |-> cd[1], excise_duty |-> ed[1],
                 excise_rate |-> ed[2], vat |-> v, idf |-> i, rail_levy |-> r,
                 total_statutory_taxes |-> tst,
                 clearing_agent_fee |-> clearing_agent_fee,
                 transport_to_nairobi |-> transport_to_nairobi,
                 port_charges |-> port_charges,
                 inspection_fee |-> inspection_fee,
                 number_plate |-> number_plate,
                 total_other_fees |-> tof,
                 grand_total_kes |-> grand_total_of(cif, tst, exchange_rate, tof),
                 exchange_rate |-> exchange_rate]
    IN  IF cd[2] # NoWarning THEN <<None, cd[2]>>
        ELSE <<costs_dict(f), NoWarning>>

-----------------------------------------------------------------------------
(* SpecFn: one call of calculate_total_costs, statement by statement.      *)
(* frame maps the names bound so far to their values; a name the call has  *)
(* not assigned is not in DOMAIN frame.                                     *)

FobArgs       == {-1000, 0, 1000, 15000, 200000}
FreightArgs   == {0, 500, 1200}
InsuranceArgs == {0, 100, 300}
AgeArgs       == (-1)..MaxAge
EngineArgs    == {-10, 0} \cup (5..60)

\* the session before any interaction (the widgets' default values)
AppInit ==
    /\ current_year \in MinCurrentYear..MaxCurrentYear
    /\ make_text = <<>>
    /\ model_text = <<>>
    /\ year = 2019
    /\ engine_size = 20
    /\ fob_input = 15000
    /\ freight_cost = 1200
    /\ insurance_cost = 300
    /\ auto_estimate = FALSE
    /\ summary_data = None
    /\ rendered = <<>>
    /\ raised = FALSE
    /\ uploaded_file = None
    /\ crsp_data = None
    /\ selected_car = None
    /\ scraped_data = None
    /\ selectbox_index = 0
    /\ empty_inputs = {}

\* no helper call is under way (outside SpecLib)
NoCall == [fn |-> "none"]

InitFn ==
    /\ pc = "cif"
    /\ \E fob \in FobArgs, fr \in FreightArgs, ins \in InsuranceArgs,
          age \in AgeArgs, eng \in EngineArgs :
          frame = [fob_value      |-> Dollars(fob),
                   freight_cost   |-> Dollars(fr),
                   insurance_cost |-> Dollars(ins),
                   vehicle_age    |-> age,
                   engine_size    |-> eng]
    /\ ret = <<>>
    /\ call = NoCall
    /\ AppInit

\* bind the names of b in the frame (assignment)
Bind(b) == frame' = b @@ frame

\* line 251
StmtCif ==
    /\ pc = "cif"
    /\ Bind("cif_value" :> cif_of(frame.fob_value, frame.freight_cost,
                                  frame.insurance_cost))
    /\ pc' = "customs"
    /\ UNCHANGED <<ret, appvars, call>>

\* line 254
StmtCustomsDuty ==
    /\ pc = "customs"
    /\ LET r == calculate_customs_duty(frame.cif_value, frame.vehicle_age)
       IN  Bind(("customs_duty" :> r[1]) @@ ("warning" :> r[2]))
    /\ pc' = "if_warning"
    /\ UNCHANGED <<ret, appvars, call>>

\* lines 255-256, warning set: return None, warning
StmtReturnWarning ==
    /\ pc = "if_warning"
    /\ frame.warning # NoWarning
    /\ ret' = <<None, frame.warning>>
    /\ pc' = "done"
    /\ UNCHANGED <<frame, appvars, call>>

\* line 255 without the early return: the call goes on whatever the warning
StmtNoWarning_always ==
    /\ pc = "if_warning"
    /\ pc' = "excise"
    /\ UNCHANGED <<frame, ret, appvars, call>>

\* line 255, no warning: fall through
StmtNoWarning ==
    /\ pc = "if_warning"
    /\ frame.warning = NoWarning
    /\ pc' = "excise"
    /\ UNCHANGED <<frame, ret, appvars, call>>

\* line 258
StmtExciseDuty ==
    /\ pc = "excise"
    /\ LET r == calculate_excise_duty(frame.cif_value, frame.engine_size)
       IN  Bind(("excise_duty" :> r[1]) @@ ("excise_rate" :> r[2]))
    /\ pc' = "vat"
    /\ UNCHANGED <<ret, appvars, call>>

\* line 259
StmtVat ==
    /\ pc = "vat"
    /\ Bind("vat" :> calculate_vat(frame.cif_value, frame.customs_duty,
                                   frame.excise_duty))
    /\ pc' = "idf"
    /\ UNCHANGED <<ret, appvars, call>>

\* line 260
StmtIdf ==
    /\ pc = "idf"
    /\ Bind("idf" :> calculate_idf(frame.cif_value, frame.customs_duty))
    /\ pc' = "rail_levy"
    /\ UNCHANGED <<ret, appvars, call>>

\* line 261
StmtRailLevy ==
    /\ pc = "rail_levy"
    /\ Bind("rail_levy" :> calculate_rail_levy(frame.cif_value))
    /\ pc' = "fees"
    /\ UNCHANGED <<ret, appvars, call>>

\* lines 264-271: the flat fees and the exchange rate
StmtFlatFees ==
    /\ pc = "fees"
    /\ Bind([clearing_agent_fee   |-> clearing_agent_fee,
             transport_to_nairobi |-> transport_to_nairobi,
             port_charges         |-> port_charges,
             inspection_fee       |-> inspection_fee,
             number_plate         |-> number_plate,
             exchange_rate        |-> exchange_rate])
    /\ pc' = "statutory"
    /\ UNCHANGED <<ret, appvars, call>>

\* line 272
StmtStatutoryTaxes ==
    /\ pc = "statutory"
    /\ Bind("total_statutory_taxes" :>
              statutory_taxes_of(frame.customs_duty, frame.excise_duty,
                                 frame.vat, frame.idf, frame.rail_levy))
    /\ pc' = "other_fees"
    /\ UNCHANGED <<ret, appvars, call>>

\* lines 275-276
StmtOtherFees ==
    /\ pc = "other_fees"
    /\ Bind("total_other_fees" :>
              other_fees_of(frame.clearing_agent_fee, frame.transport_to_nairobi,
                            frame.port_charges, frame.inspection_fee,
                            frame.number_plate))
    /\ pc' = "grand_total"
    /\ UNCHANGED <<ret, appvars, call>>

\* line 279
StmtGrandTotal ==
    /\ pc = "grand_total"
    /\ Bind("grand_total_kes" :>
              grand_total_of(frame.cif_value, frame.total_statutory_taxes,
                             frame.exchange_rate, frame.total_other_fees))
    /\ pc' = "return"
    /\ UNCHANGED <<ret, appvars, call>>

\* lines 281-301: return the dict and no warning
StmtReturnCosts ==
    /\ pc = "return"
    /\ ret' = <<costs_dict(frame), NoWarning>>
    /\ pc' = "done"
    /\ UNCHANGED <<frame, appvars, call>>

NextFn ==
    \/ StmtCif
    \/ StmtCustomsDuty
    \/ StmtReturnWarning
    \/ StmtNoWarning
    \/ StmtExciseDuty
    \/ StmtVat
    \/ StmtIdf
    \/ StmtRailLevy
    \/ StmtFlatFees
    \/ StmtStatutoryTaxes
    \/ StmtOtherFees
    \/ StmtGrandTotal
    \/ StmtReturnCosts

SpecFn == InitFn /\ [][NextFn]_vars

\* the statement-by-statement call returns what the function as a whole returns
StepwiseAgrees ==
    pc = "done" =>
        ret = calculate_total_costs(frame.fob_value, frame.freight_cost,
                                    frame.insurance_cost, frame.vehicle_age,
                                    frame.engine_size)

-----------------------------------------------------------------------------
(* Text: a str is a sequence of one-character strings *)

LowerCase == <<"a","b","c","d","e","f","g","h","i","j","k","l","m",
               "n","o","p","q","r","s","t","u","v","w","x","y","z">>
UpperCase == <<"A","B","C","D","E","F","G","H","I","J","K","L","M",
               "N","O","P","Q","R","S","T","U","V","W","X","Y","Z">>

\* str.upper() on one character
upper_char(c) ==
    IF \E k \in DOMAIN LowerCase : LowerCase[k] = c
    THEN UpperCase[CHOOSE k \in DOMAIN LowerCase : LowerCase[k] = c]
    ELSE c

\* str.upper()
upper(s) == [i \in DOMAIN s |-> upper_char(s[i])]

-----------------------------------------------------------------------------
(* estimate_car_value *)

TOYOTA     == <<"T","O","Y","O","T","A">>
NISSAN     == <<"N","I","S","S","A","N">>
HONDA      == <<"H","O","N","D","A">>
MAZDA      == <<"M","A","Z","D","A">>
SUBARU     == <<"S","U","B","A","R","U">>
AUDI       == <<"A","U","D","I">>
BMW        == <<"B","M","W">>
MERCEDES   == <<"M","E","R","C","E","D","E","S">>
VOLKSWAGEN == <<"V","O","L","K","S","W","A","G","E","N">>

\* base_values.get(key, 20000)
base_value_of(key) ==
    CASE key = TOYOTA     -> 25000
      [] key = NISSAN     -> 20000
      [] key = HONDA      -> 22000
      [] key = MAZDA      -> 18000
      [] key = SUBARU     -> 23000
      [] key = AUDI       -> 35000
      [] key = BMW        -> 40000
      [] key = MERCEDES   -> 45000
      [] key = VOLKSWAGEN -> 28000
      [] OTHER            -> 20000

\* a * num / den for a small divisor den of any kind, kept to the millionth
Ratio(a, num, den) ==
    LET W == a.w * num
        U == a.u * num
    IN  Norm(W \div den, ((W % den) * Million + U) \div den)

\* v * (1 - 0.15) ** n, kept to the millionth (n < 0: v divided by 0.85 ** -n)
RECURSIVE depreciate(_, _)
depreciate(v, n) ==
    IF n = 0 THEN v
    ELSE IF n > 0 THEN depreciate(Times(v, 85, 100), n - 1)
    ELSE depreciate(Ratio(v, 100, 85), n + 1)

\* estimate_car_value with the minimum applied as a maximum (min for max)
estimate_car_value_capped(now, yr, mk, mdl) ==
    LET age             == now - yr
        base_value      == base_value_of(upper(mk))
        estimated_value == depreciate(Dollars(base_value), age)
    IN  IF Less(estimated_value, Dollars(5000)) THEN estimated_value
        ELSE Dollars(5000)

\* estimate_car_value(year, make, model), called with the session's year
estimate_car_value(now, yr, mk, mdl) ==
    LET age             == now - yr
        base_value      == base_value_of(upper(mk))
        estimated_value == depreciate(Dollars(base_value), age)
    IN  IF Less(estimated_value, Dollars(5000)) THEN Dollars(5000)
        ELSE estimated_value

-----------------------------------------------------------------------------
(* More text functions *)

\* characters that str.strip() and the regular expression \s treat as space
IsSpace(c) == c \in {" ", "\t"}

\* str.strip()
RECURSIVE lstrip(_)
lstrip(s) == IF s # <<>> /\ IsSpace(Head(s)) THEN lstrip(Tail(s)) ELSE s

RECURSIVE rstrip(_)
rstrip(s) ==
    IF s # <<>> /\ IsSpace(s[Len(s)]) THEN rstrip(SubSeq(s, 1, Len(s) - 1))
    ELSE s

strip(s) == rstrip(lstrip(s))

\* str.replace('"', '')
remove_double_quotes(s) == SelectSeq(s, LAMBDA c : c # "\"")

\* str.replace(r'\s+', ' ', regex=True): every run of spaces becomes one blank
RECURSIVE collapse_spaces(_)
collapse_spaces(s) ==
    IF s = <<>> THEN <<>>
    ELSE IF IsSpace(Head(s))
         THEN <<" ">> \o collapse_spaces(lstrip(s))
         ELSE <<Head(s)>> \o collapse_spaces(Tail(s))

\* sub in s (literal substring)
contains(s, sub) ==
    \E i \in 0..(Len(s) - Len(sub)) : SubSeq(s, i + 1, i + Len(sub)) = sub

\* re.search(pat, s) for patterns made of literal characters and ".", which
\* matches any character
re_search(pat, s) ==
    \E i \in 0..(Len(s) - Len(pat)) :
        \A j \in 1..Len(pat) : pat[j] = "." \/ pat[j] = s[i + j]

-----------------------------------------------------------------------------
(* load_crsp_file and search_crsp.  A dataframe is a record [columns, rows]: *)
(* the sequence of column names and the sequence of rows, each row the      *)
(* sequence of its cells in column order.  A cell is a text or NaN.         *)

\* NaN: a one-element sequence that is no text (its element is no character)
NaN == <<"NaN">>

MAKE   == <<"M","A","K","E">>
MODEL  == <<"M","O","D","E","L">>
NUMBER == <<"N","U","M","B","E","R">>
MODEL_NUMBER == <<"M","O","D","E","L"," ","N","U","M","B","E","R">>

\* line 72: the standardised column name
normalize_header(h) ==
    upper(collapse_spaces(remove_double_quotes(strip(h))))

\* lines 78-79
has_make(columns) ==
    \E i \in DOMAIN columns : contains(upper(columns[i]), MAKE)

has_model(columns) ==
    \E i \in DOMAIN columns :
        /\ contains(upper(columns[i]), MODEL)
        /\ ~contains(upper(columns[i]), NUMBER)

\* lines 83-88: column_mapping.get(col, col)
renamed(col) ==
    IF upper(col) = MAKE THEN MAKE
    ELSE IF upper(col) = MODEL /\ ~contains(upper(col), NUMBER) THEN MODEL
    ELSE col

\* load_crsp_file(df): the dataframe returned, or None
load_crsp_file(df) ==
    LET columns == [i \in DOMAIN df.columns |-> normalize_header(df.columns[i])]
    IN  IF has_make(columns) /\ has_model(columns)
        THEN [columns |-> [i \in DOMAIN columns |-> renamed(columns[i])],
              rows    |-> df.rows]
        ELSE None

\* the positions of the columns named name
positions(table, name) ==
    {i \in DOMAIN table.columns : table.columns[i] = name}

\* results.to_dict('records'): one dict per row, column name -> cell
row_dict(table, row) ==
    [name \in {table.columns[i] : i \in DOMAIN table.columns} |->
        row[CHOOSE i \in DOMAIN table.columns :
               /\ table.columns[i] = name
               /\ \A k \in DOMAIN table.columns :
                     table.columns[k] = name => k <= i]]

\* series.str.upper().str.contains(pat, na=False) on one cell
cell_matches(cell, pat) == cell # NaN /\ re_search(pat, upper(cell))

\* search_crsp(make, model, crsp_data): [records |-> the list returned], or
\* [error |-> the exception raised]
search_crsp(mk, mdl, table) ==
    IF table = None THEN [records |-> <<>>]
    ELSE LET q_make  == strip(upper(mk))
             q_model == strip(upper(mdl))
             mcols   == positions(table, MAKE)
             dcols   == positions(table, MODEL)
         IN  IF mcols = {} THEN [error |-> "KeyError"]
             ELSE IF Cardinality(mcols) > 1 THEN [error |-> "AttributeError"]
             ELSE IF dcols = {} THEN [error |-> "KeyError"]
             ELSE IF Cardinality(dcols) > 1 THEN [error |-> "AttributeError"]
             ELSE LET m == CHOOSE i \in mcols : TRUE
                      d == CHOOSE i \in dcols : TRUE
                      hits == SelectSeq(table.rows,
                                  LAMBDA row : /\ cell_matches(row[m], q_make)
                                               /\ cell_matches(row[d], q_model))
                  IN  [records |-> [k \in DOMAIN hits |->
                                        row_dict(table, hits[k])]]

-----------------------------------------------------------------------------
(* Spec: the form of main() and the Calculate button *)

MakeTexts      == {<<>>, <<"t","o","y","o","t","a">>, <<"K","i","a">>}
ModelTexts     == {<<>>, <<"X","5">>}
YearChoices    == {2015, 2018, 2019}
EngineChoices  == {20, 30}
FobChoices     == {1000, 15000}
FreightChoices == {500, 1200}
InsuranceChoices == {100, 300}

\* make = st.text_input(...).upper()
make == upper(make_text)

\* model = st.text_input(...)
model == model_text

Init ==
    /\ pc = "idle"
    /\ frame = <<>>
    /\ ret = <<>>
    /\ call = NoCall
    /\ AppInit

-----------------------------------------------------------------------------
(* The session state of a script run *)

\* a value that may be None: Some(v), or None
Some(v) == [some |-> v]

\* lines 544-547 and 595-598: st.session_state.crsp_data once the sidebar has
\* run with this dataframe in the uploader (None: no file)
session_table_always_stored(file, old) ==
    IF file = None THEN old ELSE load_crsp_file(file)

session_table(file, old) ==
    IF file = None THEN old
    ELSE IF load_crsp_file(file) # None THEN load_crsp_file(file)
    ELSE old

\* lines 690-691: scraped_data.get(key, default) on a dict that always has the
\* key, possibly with the value None
default_year(sd) == IF sd # None THEN sd.year ELSE Some(2019)
default_fob(sd)  == IF sd # None THEN sd.fob_value ELSE Some(15000)

\* st.number_input(min_value, max_value, value): StreamlitAPIException for a
\* default below min_value or above max_value (a default of None is accepted
\* and leaves the field empty)
number_input_raises(value, min_value, max_value) ==
    value # None /\ (value.some < min_value \/ value.some > max_value)

\* what a script run reads below the sidebar, the selectbox apart: the clock,
\* the session state and the make and model fields
form ==
    [current_year |-> current_year, make_text |-> make_text,
     model_text |-> model_text, crsp_data |-> crsp_data,
     scraped_data |-> scraped_data]

\* lines 698-703
YearInputRaises(f) ==
    number_input_raises(default_year(f.scraped_data), 2015, f.current_year)

\* lines 742-746
FobInputRaises(f) ==
    number_input_raises(default_fob(f.scraped_data), 1000, 200000)

\* line 706
crsp_searched(f) ==
    f.crsp_data # None /\ upper(f.make_text) # <<>> /\ f.model_text # <<>>

\* line 708 raises (the loaded table has no usable MAKE or MODEL column)
SearchRaises(f) ==
    /\ crsp_searched(f)
    /\ "error" \in DOMAIN search_crsp(upper(f.make_text), f.model_text,
                                      f.crsp_data)

\* where the script run stops on an exception before the Calculate button
RaisedAt(f) ==
    IF YearInputRaises(f) THEN "year_input"
    ELSE IF SearchRaises(f) THEN "search_crsp"
    ELSE IF FobInputRaises(f) THEN "fob_input"
    ELSE "none"

\* lines 708, 714: matches[:10], <<>> when the search is not made
matches(f) ==
    IF ~YearInputRaises(f) /\ crsp_searched(f) /\ ~SearchRaises(f)
    THEN LET found == search_crsp(upper(f.make_text), f.model_text,
                                  f.crsp_data).records
         IN  SubSeq(found, 1, IF Len(found) < 10 THEN Len(found) ELSE 10)
    ELSE <<>>

NoneLabel == <<"N","o","n","e">>

\* lines 715-718 (a header with two blanks, 'MODEL  NUMBER', cannot survive
\* line 72)
label(match) ==
    match[MAKE] \o <<" ">> \o match[MODEL] \o
    (IF MODEL_NUMBER \in DOMAIN match
     THEN <<" ", "-", " ">> \o (IF match[MODEL_NUMBER] # <<>>
                               THEN match[MODEL_NUMBER] ELSE NoneLabel)
     ELSE <<>>)

\* lines 713-719; <<>> when the selectbox is not shown
match_options(f) ==
    LET found == matches(f) IN [i \in DOMAIN found |-> label(found[i])]

\* list.index(x): the first position holding x
index(list, x) ==
    CHOOSE i \in DOMAIN list : list[i] = x /\ \A k \in 1..(i - 1) : list[k] # x

\* lines 721-722: the label the selectbox returns for the position chosen
selected_match(f, position) ==
    (<<NoneLabel>> \o match_options(f))[position + 1]

\* the sidebar's part of a script run
Sidebar == crsp_data' = session_table(uploaded_file', crsp_data)

\* a selectbox keeps its choice from one run to the next as long as it is
\* shown with the same options, and starts at "None" otherwise
KeepSelection ==
    selectbox_index' =
        IF crsp_data' = None \/ match_options(form') # match_options(form)
        THEN 0 ELSE selectbox_index

\* lines 724-726
StoreSelection ==
    selected_car' =
        IF selectbox_index' = 0 THEN selected_car
        ELSE LET f == form'
                 options == match_options(f)
                 idx == index(options, selected_match(f, selectbox_index'))
             IN  Some(matches(f)[idx])

\* the end of a script run in which the Calculate button is not pressed: no
\* result, or the exception that stopped the form
NoResult ==
    LET stopped == RaisedAt(form')
    IN  IF stopped = "none"
        THEN rendered' = <<>> /\ raised' = FALSE
        ELSE /\ rendered' = <<IF stopped = "search_crsp"
                              THEN "KeyError" ELSE "StreamlitAPIException">>
             /\ raised' = TRUE

\* a script run that follows an interaction outside the sidebar, the scrape
\* expander and the selectbox
Rerun ==
    /\ UNCHANGED <<uploaded_file, scraped_data>>
    /\ Sidebar
    /\ KeepSelection
    /\ StoreSelection
    /\ NoResult

-----------------------------------------------------------------------------
(* The interactions *)

SetMake ==
    /\ \E t \in MakeTexts : t # make_text /\ make_text' = t
    /\ UNCHANGED <<fnvars, current_year, model_text, year, engine_size,
                   fob_input, freight_cost, insurance_cost, auto_estimate,
                   summary_data, empty_inputs>>
    /\ Rerun

SetModel ==
    /\ \E t \in ModelTexts : t # model_text /\ model_text' = t
    /\ UNCHANGED <<fnvars, current_year, make_text, year, engine_size,
                   fob_input, freight_cost, insurance_cost, auto_estimate,
                   summary_data, empty_inputs>>
    /\ Rerun

\* number_input: min_value 2015, max_value datetime.now().year
SetYear ==
    /\ ~YearInputRaises(form)
    /\ \E y \in YearChoices \cup {current_year} :
          /\ y >= 2015 /\ y <= current_year
          /\ y # year \/ "year_input" \in empty_inputs
          /\ year' = y
    /\ empty_inputs' = empty_inputs \ {"year_input"}
    /\ UNCHANGED <<fnvars, current_year, make_text, model_text, engine_size,
                   fob_input, freight_cost, insurance_cost, auto_estimate,
                   summary_data>>
    /\ Rerun

\* lines 721-722: the selectbox of CRSP matches
SelectMatch ==
    /\ match_options(form) # <<>>
    /\ \E i \in 0..Len(match_options(form)) :
          i # selectbox_index /\ selectbox_index' = i
    /\ UNCHANGED <<fnvars, current_year, make_text, model_text, year,
                   engine_size, fob_input, freight_cost, insurance_cost,
                   auto_estimate, summary_data, empty_inputs, uploaded_file,
                   scraped_data>>
    /\ Sidebar
    /\ StoreSelection
    /\ NoResult

\* number_input: min_value 0.5, max_value 6.0
SetEngineSize ==
    /\ RaisedAt(form) \in {"fob_input", "none"}
    /\ \E e \in EngineChoices :
          /\ e >= 5 /\ e <= 60 /\ e # engine_size
          /\ engine_size' = e
    /\ UNCHANGED <<fnvars, current_year, make_text, model_text, year,
                   fob_input, freight_cost, insurance_cost, auto_estimate,
                   summary_data, empty_inputs>>
    /\ Rerun

\* number_input: min_value 1000, max_value 200000
SetFobValue ==
    /\ RaisedAt(form) = "none"
    /\ \E f \in FobChoices :
          /\ f >= 1000 /\ f <= 200000
          /\ f # fob_input \/ "fob_input" \in empty_inputs
          /\ fob_input' = f
    /\ empty_inputs' = empty_inputs \ {"fob_input"}
    /\ UNCHANGED <<fnvars, current_year, make_text, model_text, year,
                   engine_size, freight_cost, insurance_cost, auto_estimate,
                   summary_data>>
    /\ Rerun

\* number_input: min_value 500, max_value 5000
SetFreightCost ==
    /\ RaisedAt(form) = "none"
    /\ \E f \in FreightChoices :
          /\ f >= 500 /\ f <= 5000 /\ f # freight_cost
          /\ freight_cost' = f
    /\ UNCHANGED <<fnvars, current_year, make_text, model_text, year,
                   engine_size, fob_input, insurance_cost, auto_estimate,
                   summary_data, empty_inputs>>
    /\ Rerun

\* number_input: min_value 100, max_value 2000
SetInsuranceCost ==
    /\ RaisedAt(form) = "none"
    /\ \E i \in InsuranceChoices :
          /\ i >= 100 /\ i <= 2000 /\ i # insurance_cost
          /\ insurance_cost' = i
    /\ UNCHANGED <<fnvars, current_year, make_text, model_text, year,
                   engine_size, fob_input, freight_cost, auto_estimate,
                   summary_data, empty_inputs>>
    /\ Rerun

ToggleAutoEstimate ==
    /\ RaisedAt(form) = "none"
    /\ auto_estimate' = ~auto_estimate
    /\ UNCHANGED <<fnvars, current_year, make_text, model_text, year,
                   engine_size, fob_input, freight_cost, insurance_cost,
                   summary_data, empty_inputs>>
    /\ Rerun

\* lines 762-766: the estimate is made when make and year are truthy
estimated == auto_estimate /\ make # <<>> /\ "year_input" \notin empty_inputs

\* lines 742-766: the FOB field, replaced by the estimate when the box is ticked
fob_value ==
    IF estimated
    THEN estimate_car_value(current_year, year, make, model)
    ELSE Dollars(fob_input)

\* line 775
vehicle_age == current_year - year

\* lines 778-784: the call made by the button handler
handler_call ==
    calculate_total_costs(fob_value, Dollars(freight_cost),
                          Dollars(insurance_cost), vehicle_age, engine_size)

\* lines 792-798
summary_record(costs) ==
    [make |-> make, model |-> model, year |-> year,
     engine_size |-> engine_size, costs |-> costs]

\* lines 786-790: st.error(warning) or st.success
handler_message(warning) ==
    IF warning # NoWarning THEN <<warning>> ELSE <<"Calculation Complete!">>

\* lines 803-885: what follows the message, and whether the run raises.
\* display_cost_breakdown(None) writes its first headings and then fails on
\* costs['fob_value'] (line 312), which ends the script run.
handler_display(costs) ==
    IF costs = None
    THEN [out |-> <<"Vehicle Summary", "Complete Cost Breakdown">>,
          raised |-> TRUE]
    ELSE [out |-> <<"Vehicle Summary", "Complete Cost Breakdown",
                    "GRAND TOTAL", "Should You Import or Buy Locally?",
                    "Important Tips", "Download Summary">>,
          raised |-> FALSE]

\* line 775 (year is None) or line 250 (fob_value is None): None in arithmetic
handler_type_error ==
    \/ "year_input" \in empty_inputs
    \/ "fob_input" \in empty_inputs /\ ~estimated

\* lines 771-885: the "Calculate Total Import Cost" button
Calculate ==
    /\ RaisedAt(form) = "none"
    /\ IF make = <<>> \/ model = <<>>
       THEN /\ rendered' = <<"Please enter at least Make and Model">>
            /\ raised' = FALSE
            /\ UNCHANGED summary_data
       ELSE IF handler_type_error
       THEN /\ rendered' = <<"TypeError">>
            /\ raised' = TRUE
            /\ UNCHANGED summary_data
       ELSE LET costs   == handler_call[1]
                warning == handler_call[2]
                d       == handler_display(costs)
            IN  /\ summary_data' = summary_record(costs)
                /\ rendered' = handler_message(warning) \o d.out
                /\ raised' = d.raised
    /\ UNCHANGED <<fnvars, current_year, make_text, model_text, year,
                   engine_size, fob_input, freight_cost, insurance_cost,
                   auto_estimate, empty_inputs, uploaded_file, scraped_data>>
    /\ Sidebar
    /\ KeepSelection
    /\ StoreSelection

Next ==
    \/ SetMake
    \/ SetModel
    \/ SetYear
    \/ SetEngineSize
    \/ SetFobValue
    \/ SetFreightCost
    \/ SetInsuranceCost
    \/ ToggleAutoEstimate
    \/ Calculate

Spec == Init /\ [][Next]_vars

-----------------------------------------------------------------------------
(* Properties of calculate_total_costs (checked under SpecFn) *)

\* the call has returned
Returned == pc = "done"

\* the call has returned a breakdown
ReturnedCosts == pc = "done" /\ ret[1] # None

\* the local variable `name` has been assigned in the call
Bound(name) == name \in DOMAIN frame

\* the keys of the dict returned on success (lines 281-301)
CostKeys ==
    {"fob_value", "freight_cost", "insurance_cost", "cif_value",
     "customs_duty", "excise_duty", "excise_rate", "vat", "idf", "rail_levy",
     "total_statutory_taxes", "clearing_agent_fee", "transport_to_nairobi",
     "port_charges", "inspection_fee", "number_plate", "total_other_fees",
     "grand_total_kes", "exchange_rate"}

\* the keys whose value is an amount of money computed by the call
MoneyKeys ==
    {"fob_value", "freight_cost", "insurance_cost", "cif_value",
     "customs_duty", "excise_duty", "vat", "idf", "rail_levy",
     "total_statutory_taxes", "total_other_fees", "grand_total_kes"}

\* the names bound by the statements after the eligibility check
LaterNames ==
    {"excise_duty", "excise_rate", "vat", "idf", "rail_levy",
     "clearing_agent_fee", "transport_to_nairobi", "port_charges",
     "inspection_fee", "number_plate", "exchange_rate",
     "total_statutory_taxes", "total_other_fees", "grand_total_kes"}

C2_RefusesInvalidInput ==
    (/\ Returned
     /\ \/ NonPositive(frame.fob_value)
        \/ NonPositive(frame.freight_cost)
        \/ NonPositive(frame.insurance_cost)
        \/ frame.engine_size <= 0
        \/ frame.vehicle_age < 0)
    => ret[1] = None

\* C3: every call returns either a fully populated breakdown with no warning
\* or no breakdown with a rejection reason, never both and never neither; and
\* once the age is rejected none of the later statements (excise, VAT,
\* declaration fee, levy, fees, totals) is executed.
C3_BreakdownOrReason ==
    /\ Returned =>
          \/ /\ ret[1] # None
             /\ DOMAIN ret[1] = CostKeys
             /\ \A k \in MoneyKeys : ret[1][k] # None
             /\ \A k \in CostKeys \ MoneyKeys : ret[1][k] \in Nat
             /\ ret[2] = NoWarning
          \/ /\ ret[1] = None
             /\ ret[2] \in {WarnOver8, WarnOver3}
    /\ (Bound("warning") /\ frame.warning # NoWarning) =>
          /\ pc \in {"if_warning", "done"}
          /\ DOMAIN frame \cap LaterNames = {}

\* C3 witness: a rejected call has returned with only the eligibility check run
C3_Witness ==
    /\ Returned
    /\ ret = <<None, WarnOver8>>
    /\ DOMAIN frame \cap LaterNames = {}

\* the amount w + u/1000000
Amount(w, u) == [w |-> w, u |-> u]

\* the arguments of the call are those of the worked example of the
\* specification: FOB 15000, freight 1200, insurance 300, 2.0 litres, age 4
ExampleCall ==
    /\ frame.fob_value = Dollars(15000)
    /\ frame.freight_cost = Dollars(1200)
    /\ frame.insurance_cost = Dollars(300)
    /\ frame.engine_size = 20
    /\ frame.vehicle_age = 4

\* C5: for every engine displacement in 0.5..6.0 litres the excise duty is
\* exactly 20, 25, 30 or 35 percent of CIF; 1.5, 2.0 and 2.5 litres fall in
\* the lower tier (20, 25, 30 percent), anything above 2.5 is at 35 percent;
\* and no smaller displacement of the range has a higher rate.
C5_ExciseTiers ==
    (Bound("excise_duty") /\ frame.engine_size \in 5..60) =>
        /\ frame.excise_rate \in {20, 25, 30, 35}
        /\ Times(frame.excise_duty, 100, 1)
             = Times(frame.cif_value, frame.excise_rate, 1)
        /\ frame.engine_size = 15 => frame.excise_rate = 20
        /\ frame.engine_size = 20 => frame.excise_rate = 25
        /\ frame.engine_size = 25 => frame.excise_rate = 30
        /\ frame.engine_size > 25 => frame.excise_rate = 35
        /\ \A e \in 5..60 :
              e <= frame.engine_size =>
                  calculate_excise_duty(frame.cif_value, e)[2]
                      <= frame.excise_rate

\* C5 witness: a 2.5 litre engine has been taxed at 30 percent of a positive CIF
C5_Witness ==
    /\ Returned
    /\ Bound("excise_duty")
    /\ frame.engine_size = 25
    /\ frame.excise_rate = 30
    /\ frame.cif_value = Dollars(16500)
    /\ frame.excise_duty = Dollars(4950)

\* C6: in every returned breakdown VAT is 16% of (CIF + customs duty +
\* excise duty) and the declaration fee is 2.25% of (CIF + customs duty),
\* excise excluded, both on the amounts of that same breakdown.
C6_DependentTaxes ==
    ReturnedCosts =>
        LET c == ret[1]
        IN  /\ Times(c.vat, 100, 1)
                 = Times(Add(Add(c.cif_value, c.customs_duty), c.excise_duty),
                         16, 1)
            /\ Times(Times(c.idf, 100, 1), 100, 1)
                 = Times(Add(c.cif_value, c.customs_duty), 225, 1)

\* C6 witness: a breakdown with a positive excise duty and a declaration fee
\* that is not a whole number of dollars has been returned
C6_Witness ==
    /\ ReturnedCosts
    /\ Less(Dollars(0), ret[1].excise_duty)
    /\ ret[1].idf.u # 0
    /\ Less(Dollars(0), ret[1].vat)

\* C7: in every returned breakdown total_statutory_taxes is exactly
\* customs_duty + excise_duty + vat + idf + rail_levy of that breakdown, and
\* cif_value is fob_value + freight_cost + insurance_cost of that breakdown.
C7_Sums ==
    ReturnedCosts =>
        LET c == ret[1]
        IN  /\ c.total_statutory_taxes
                 = Add(c.customs_duty,
                       Add(c.excise_duty, Add(c.vat, Add(c.idf, c.rail_levy))))
            /\ c.cif_value
                 = Add(c.fob_value, Add(c.freight_cost, c.insurance_cost))

\* C7 witness: a breakdown whose three cost inputs and five taxes are all
\* positive has been returned
C7_Witness ==
    /\ ReturnedCosts
    /\ \A k \in {"fob_value", "freight_cost", "insurance_cost", "customs_duty",
                 "excise_duty", "vat", "idf", "rail_levy"} :
          Less(Dollars(0), ret[1][k])

\* C8: in every returned breakdown grand_total_kes is (CIF + total statutory
\* taxes) x exchange rate + total other fees, the exchange rate is the one
\* constant 129, and total_other_fees is the unconverted sum of the five flat
\* fees (25000 + 15000 + 10000 + 8000 + 3000 KES) whatever the vehicle.
C8_GrandTotal ==
    ReturnedCosts =>
        LET c == ret[1]
        IN  /\ c.exchange_rate = 129
            /\ c.grand_total_kes
                 = Add(Times(Add(c.cif_value, c.total_statutory_taxes),
                             c.exchange_rate, 1),
                       c.total_other_fees)
            /\ c.total_other_fees
                 = Dollars(c.clearing_agent_fee + c.transport_to_nairobi
                           + c.port_charges + c.inspection_fee + c.number_plate)
            /\ c.total_other_fees = Dollars(61000)

\* C8 witness: the breakdown of the worked example, with its grand total of
\* 3,867,024.0625 KES, has been returned
C8_Witness ==
    /\ ReturnedCosts
    /\ ExampleCall
    /\ ret[1].grand_total_kes = Amount(3867024, 62500)

\* C9: of two eligible calls that differ only in FOB, the one with the larger
\* FOB returns the strictly larger grand total.
C9_MonotoneInFob ==
    ReturnedCosts =>
        \A fob2 \in FobArgs :
            Less(frame.fob_value, Dollars(fob2)) =>
                LET r2 == calculate_total_costs(Dollars(fob2),
                                                frame.freight_cost,
                                                frame.insurance_cost,
                                                frame.vehicle_age,
                                                frame.engine_size)
                IN  /\ r2[1] # None
                    /\ Less(ret[1].grand_total_kes, r2[1].grand_total_kes)

\* C9 witness: a breakdown for the smallest valid FOB, which larger FOB values
\* are compared with, has been returned
C9_Witness ==
    /\ ReturnedCosts
    /\ frame.fob_value = Dollars(1000)
    /\ frame.vehicle_age = 7
    /\ \E fob2 \in FobArgs : Less(frame.fob_value, Dollars(fob2))

\* C10 (as claimed): the worked example returns CIF 16500, customs duty 4125,
\* excise duty 4125 (25%), VAT 3798.00, declaration fee 464.0625, rail levy
\* 330 and total statutory taxes 12842.0625.
C10_ExampleAsClaimed ==
    (Returned /\ ExampleCall) =>
        /\ ret[1] # None
        /\ ret[1].cif_value = Dollars(16500)
        /\ ret[1].customs_duty = Dollars(4125)
        /\ ret[1].excise_duty = Dollars(4125)
        /\ ret[1].excise_rate = 25
        /\ ret[1].vat = Dollars(3798)
        /\ ret[1].idf = Amount(464, 62500)
        /\ ret[1].rail_levy = Dollars(330)
        /\ ret[1].total_statutory_taxes = Amount(12842, 62500)

\* C10 (amended): the worked example returns CIF 16500, customs duty 4125,
\* excise duty 4125 (25%), VAT 3960.00, declaration fee 464.0625, rail levy
\* 330 and total statutory taxes 13004.0625.
C10_Example ==
    (Returned /\ ExampleCall) =>
        /\ ret[1] # None
        /\ ret[1].cif_value = Dollars(16500)
        /\ ret[1].customs_duty = Dollars(4125)
        /\ ret[1].excise_duty = Dollars(4125)
        /\ ret[1].excise_rate = 25
        /\ ret[1].vat = Dollars(3960)
        /\ ret[1].idf = Amount(464, 62500)
        /\ ret[1].rail_levy = Dollars(330)
        /\ ret[1].total_statutory_taxes = Amount(13004, 62500)

\* C10 witness: the worked example has returned a breakdown
C10_Witness == Returned /\ ExampleCall /\ ret[2] = NoWarning

-----------------------------------------------------------------------------
(* Properties of the Calculate button (checked under Spec) *)

\* C4 (as claimed): after Calculate on a vehicle whose age is rejected the
\* page shows the rejection reason and nothing else (no cost breakdown, no
\* market comparison, no download, no failure), and the session never holds
\* a summary record whose breakdown is missing.
C4_RejectionShowsOnlyReason ==
    /\ (rendered # <<>> /\ rendered[1] \in {WarnOver8, WarnOver3}) =>
          (rendered = <<rendered[1]>> /\ ~raised)
    /\ summary_data # None => summary_data.costs # None

-----------------------------------------------------------------------------
(* SpecLib: calls of the helper functions with arguments from bounded sets *)

\* longest raw header text, most columns and most rows of a dataframe, and
\* the number of years after the current one, handed to the helpers
MaxHeaderLen   == 3
MaxColumns     == 2
MaxRows        == 2
MaxFutureYears == 1

\* the sequences over S of length lo..hi
SeqsOf(S, lo, hi) == UNION {[1..n -> S] : n \in lo..hi}

HeaderAlphabet == {"m", "K", " ", "\t", "\"", "'"}
RawHeaders     == SeqsOf(HeaderAlphabet, 0, MaxHeaderLen)

HeaderChoices ==
    {<<"M","a","k","e">>, <<" "," ","M","a","k","e"," "," ">>, <<"M","a","k","e","r">>, <<"M","o","d","e","l">>, <<"M","o","d","e","l"," ","N","u","m","b","e","r">>,
     <<"M","o","d","e","l"," ","N","a","m","e">>, <<"\""," ","M","a","k","e","\"">>, <<"P","r","i","c","e">>}

\* dataframes handed to load_crsp_file: any headers, one row
RawTables ==
    {[columns |-> cols, rows |-> <<[i \in DOMAIN cols |-> TOYOTA]>>] :
        cols \in SeqsOf(HeaderChoices, 1, MaxColumns)}

MakeCells  == {TOYOTA, <<"B","m","w">>, <<>>, NaN}
ModelCells == {<<"R","A","V","4">>, <<"X","5">>, <<>>, NaN}

\* dataframes handed to search_crsp: the columns MAKE and MODEL, any rows
SearchTables ==
    {[columns |-> <<MAKE, MODEL>>, rows |-> rows] :
        rows \in SeqsOf({<<m, d>> : m \in MakeCells, d \in ModelCells},
                        0, MaxRows)}

MakeQueries  == {<<"t","o","y">>, <<" ","B","M","W"," ">>, <<"T",".","Y">>, <<" ">>, <<>>}
ModelQueries == {<<"r","a","v","4">>, <<"X","5">>, <<"R",".","V">>, <<" ">>, <<>>}

EstimateMakes ==
    {<<"t","o","y","o","t","a">>, <<"T","o","y","o","t","a">>, TOYOTA, <<"m","a","z","d","a">>, <<"B","m","w">>, <<"k","i","a">>, <<>>}

\* the calls to make: the function and its arguments, no result yet
LibCalls ==
    {[fn |-> "normalize_header", header |-> h] : h \in RawHeaders}
    \cup {[fn |-> "load_crsp_file", df |-> df] : df \in RawTables}
    \cup {[fn |-> "search_crsp", make |-> mk, model |-> mdl, crsp_data |-> t] :
             mk \in MakeQueries, mdl \in ModelQueries, t \in SearchTables}
    \cup {[fn |-> "estimate_car_value", year |-> yr, make |-> mk] :
             yr \in (MinCurrentYear - MaxAge)..(MaxCurrentYear + MaxFutureYears),
             mk \in EstimateMakes}

InitLib ==
    /\ pc = "idle"
    /\ frame = <<>>
    /\ ret = <<>>
    /\ AppInit
    /\ call \in LibCalls

\* the call has not been made yet
Pending(fn) == call.fn = fn /\ "result" \notin DOMAIN call

\* the call has been made
Called(fn) == call.fn = fn /\ "result" \in DOMAIN call

CallNormalize ==
    /\ Pending("normalize_header")
    /\ call' = ("result" :> normalize_header(call.header)) @@ call
    /\ UNCHANGED <<pc, frame, ret, appvars>>

CallLoad ==
    /\ Pending("load_crsp_file")
    /\ call' = ("result" :> load_crsp_file(call.df)) @@ call
    /\ UNCHANGED <<pc, frame, ret, appvars>>

CallSearch ==
    /\ Pending("search_crsp")
    /\ call' = ("result" :> search_crsp(call.make, call.model, call.crsp_data))
               @@ call
    /\ UNCHANGED <<pc, frame, ret, appvars>>

CallEstimate ==
    /\ Pending("estimate_car_value")
    /\ call' = ("result" :> estimate_car_value(current_year, call.year,
                                               call.make, <<>>)) @@ call
    /\ UNCHANGED <<pc, frame, ret, appvars>>

NextLib ==
    \/ CallNormalize
    \/ CallLoad
    \/ CallSearch
    \/ CallEstimate

SpecLib == InitLib /\ [][NextLib]_vars

-----------------------------------------------------------------------------
(* Properties of the helper functions (checked under SpecLib) *)

\* the rows of table t, in order, whose MAKE and MODEL cells are texts that
\* contain the trimmed upper-case queries as literal substrings
LiteralMatches(mk, mdl, t) ==
    LET hits == SelectSeq(t.rows,
                    LAMBDA row :
                        /\ row[1] # NaN
                        /\ row[2] # NaN
                        /\ contains(upper(row[1]), strip(upper(mk)))
                        /\ contains(upper(row[2]), strip(upper(mdl))))
    IN  [k \in DOMAIN hits |-> row_dict(t, hits[k])]

\* C11 (as claimed): for every table and every pair of non-empty queries,
\* search_crsp returns exactly the rows whose MAKE contains the upper-cased,
\* trimmed make query and whose MODEL contains the upper-cased, trimmed model
\* query as literal substrings: all of them, no others, in table order.
C11_SearchIsLiteralSubstring ==
    (Called("search_crsp") /\ call.make # <<>> /\ call.model # <<>>) =>
        call.result
          = [records |-> LiteralMatches(call.make, call.model, call.crsp_data)]

\* C12 (as claimed): whatever query the form can pass (make and model both
\* non-empty as typed, possibly blank once trimmed), no row whose MAKE or
\* MODEL cell is absent or empty is returned by search_crsp, and a query that
\* is empty once trimmed is no wildcard: it returns no row.
C12_NoRowWithEmptyCell ==
    (Called("search_crsp") /\ call.make # <<>> /\ call.model # <<>>) =>
        /\ \A k \in DOMAIN call.result.records :
              /\ call.result.records[k][MAKE] \notin {NaN, <<>>}
              /\ call.result.records[k][MODEL] \notin {NaN, <<>>}
        /\ (strip(upper(call.make)) = <<>> \/ strip(upper(call.model)) = <<>>)
              => call.result.records = <<>>

\* the standardised headers of a dataframe handed to load_crsp_file
Normalized(df) == [i \in DOMAIN df.columns |-> normalize_header(df.columns[i])]

\* C13 (as claimed): load_crsp_file accepts a dataset exactly when some
\* normalized header is exactly MAKE and some normalized header contains
\* MODEL but not NUMBER; otherwise it returns nothing.
C13_AcceptsExactlyValidSchema ==
    Called("load_crsp_file") =>
        LET cols == Normalized(call.df)
        IN  (call.result # None) <=>
               /\ \E i \in DOMAIN cols : cols[i] = MAKE
               /\ \E i \in DOMAIN cols :
                     contains(cols[i], MODEL) /\ ~contains(cols[i], NUMBER)

\* C14 (as claimed): every table that load_crsp_file returns has a column
\* named exactly MAKE and a column named exactly MODEL, keeps the other
\* columns under their normalized names in the original order, and can be
\* searched without a missing-column failure.
C14_LoadedTableHasMakeAndModel ==
    (Called("load_crsp_file") /\ call.result # None) =>
        LET t    == call.result
            cols == Normalized(call.df)
        IN  /\ \E i \in DOMAIN t.columns : t.columns[i] = MAKE
            /\ \E i \in DOMAIN t.columns : t.columns[i] = MODEL
            /\ DOMAIN t.columns = DOMAIN cols
            /\ \A i \in DOMAIN cols :
                  t.columns[i] \notin {MAKE, MODEL} => t.columns[i] = cols[i]
            /\ "error" \notin DOMAIN search_crsp(TOYOTA, TOYOTA, t)

\* C16 (as claimed): every normalized header has no leading or trailing
\* whitespace, no quote character, no run of two or more whitespace
\* characters and no lower-case letter, and normalizing it again changes
\* nothing.
C16_NormalizedHeaderIsClean ==
    Called("normalize_header") =>
        LET r == call.result
        IN  /\ r # <<>> => (~IsSpace(r[1]) /\ ~IsSpace(r[Len(r)]))
            /\ \A i \in DOMAIN r : r[i] # "\""
            /\ \A i \in 1..(Len(r) - 1) : ~(IsSpace(r[i]) /\ IsSpace(r[i + 1]))
            /\ \A i \in DOMAIN r : upper_char(r[i]) = r[i]
            /\ normalize_header(r) = r

\* the larger of two amounts
MaxOf(a, b) == IF Less(a, b) THEN b ELSE a

\* C17: for every year and make, estimate_car_value is the base value of the
\* make (matched whatever its case, 20000 for a make that is not in the
\* mapping) depreciated by 15% per year of age and floored at 5000: it is the
\* base value at age 0, max(0.85 x the value of a car one year newer, 5000)
\* from age 1 on, never below 5000, and never higher for an older vehicle.
C17_Estimate ==
    Called("estimate_car_value") =>
        LET age   == current_year - call.year
            r     == call.result
            est(yr, mk) == estimate_car_value(current_year, yr, mk, <<>>)
            newer == est(call.year + 1, call.make)
            older == est(call.year - 1, call.make)
            base  == CASE upper(call.make) = TOYOTA -> 25000
                       [] upper(call.make) = MAZDA  -> 18000
                       [] upper(call.make) = BMW    -> 40000
                       [] OTHER                     -> 20000
        IN  /\ ~Less(r, Dollars(5000))
            /\ r = est(call.year, upper(call.make))
            /\ age = 0 => r = Dollars(base)
            /\ age < 0 => ~Less(r, Dollars(base))
            /\ age >= 1 => r = MaxOf(Times(newer, 85, 100), Dollars(5000))
            /\ ~Less(r, older)

\* C17 witness: a nine-year-old car of a make that is not in the mapping has
\* been estimated at the floor of 5000, below 20000 x 0.85^9
C17_Witness ==
    /\ Called("estimate_car_value")
    /\ call.make = <<"k","i","a">>
    /\ current_year - call.year = 9
    /\ call.result = Dollars(5000)


-----------------------------------------------------------------------------
(* SpecCrsp: uploads of the reference table and the selection of a match *)

Price == <<"P","r","i","c","e">>

\* the dataframes read from the files a user uploads: two tables of the
\* same vehicles with different prices (the first with two variants of one
\* make and model), a sheet without a model column, and a sheet whose make
\* column is headed Maker
ToyotaVariants ==
    [columns |-> <<<<"M","a","k","e">>, <<"M","o","d","e","l">>, Price>>,
     rows    |-> << <<<<"T","O","Y","O","T","A">>, <<"X","5">>, <<"1">>>>,
                    <<<<"T","O","Y","O","T","A">>, <<"X","5">>, <<"2">>>>,
                    <<<<"K","I","A">>, <<"X","5">>, <<"3">>>> >>]

OtherPrices ==
    [columns |-> <<<<"M","a","k","e">>, <<"M","o","d","e","l">>, Price>>,
     rows    |-> << <<<<"T","O","Y","O","T","A">>, <<"X","5">>, <<"4">>>>,
                    <<<<"K","I","A">>, <<"X","5">>, <<"5">>>> >>]

NoModelColumn ==
    [columns |-> <<<<"M","a","k","e">>, <<"M","o","d","e","l"," ","N","u","m","b","e","r">>, Price>>,
     rows    |-> << <<<<"T","O","Y","O","T","A">>, <<"X","5">>, <<"6">>>> >>]

MakerColumn ==
    [columns |-> <<<<"M","a","k","e","r">>, <<"M","o","d","e","l">>, Price>>,
     rows    |-> << <<<<"T","O","Y","O","T","A">>, <<"X","5">>, <<"7">>>> >>]

UploadChoices == {ToyotaVariants, OtherPrices, NoModelColumn, MakerColumn}

\* lines 529-636: a file is put in the uploader, or taken out of it
Upload ==
    /\ \E file \in UploadChoices \cup {None} :
          file # uploaded_file /\ uploaded_file' = file
    /\ UNCHANGED <<fnvars, current_year, make_text, model_text, year,
                   engine_size, fob_input, freight_cost, insurance_cost,
                   auto_estimate, summary_data, empty_inputs, scraped_data>>
    /\ Sidebar
    /\ KeepSelection
    /\ StoreSelection
    /\ NoResult

NextCrsp ==
    \/ Upload
    \/ SetMake
    \/ SetModel
    \/ SelectMatch

SpecCrsp == Init /\ [][NextCrsp]_vars

\* the rows of the loaded table, as search_crsp returns them
TableRecords ==
    IF crsp_data = None THEN {}
    ELSE {row_dict(crsp_data, crsp_data.rows[i]) : i \in DOMAIN crsp_data.rows}

\* C15: an upload that fails schema validation loads nothing: load_crsp_file
\* returns no table for it, the session's reference table stays exactly as
\* it was before the upload, and the matches offered afterwards are rows of
\* that table.
C15_RejectedUploadLoadsNothing ==
    [][(uploaded_file' # uploaded_file /\ uploaded_file' # None
          /\ LET columns == Normalized(uploaded_file')
             IN  ~(has_make(columns) /\ has_model(columns)))
        => /\ load_crsp_file(uploaded_file') = None
           /\ crsp_data' = crsp_data
           /\ \A i \in DOMAIN matches(form') :
                 matches(form')[i] \in TableRecords]_vars

\* C15 witness: a table is loaded and the file now in the uploader failed
\* validation
C15_Witness ==
    /\ uploaded_file = NoModelColumn
    /\ crsp_data = load_crsp_file(ToyotaVariants)
    /\ matches(form) # <<>>

\* C19 (as claimed): selected_car, when set, is the row of the currently
\* loaded reference table that the user picked in the selectbox: a row of
\* the table now loaded, not set while the selectbox shows "None", and the
\* variant at the chosen position even when several options share its label.
C19_SelectedCarIsThePick ==
    selected_car # None =>
        /\ selected_car.some \in TableRecords
        /\ selectbox_index > 0
        /\ selected_car = Some(matches(form)[selectbox_index])

-----------------------------------------------------------------------------
(* SpecScrape: the link scrape and the fields it prefills *)

\* what re.search finds on the page: a year 2010..2029 and a price, or not
ScrapedYears == {2012, 2020}
ScrapedFobs  == {50, 12000}

\* lines 112-142: the dict returned; lines 144-146: None after an exception
ScrapeResults ==
    {None} \cup
    [make : {<<>>}, model : {<<>>},
     year : {None} \cup {Some(y) : y \in ScrapedYears},
     engine_size : {None},
     fob_value : {None} \cup {Some(f) : f \in ScrapedFobs}]

\* a number input whose default changed starts again from the new default
\* (empty for None); it keeps its value when the default is the same or the
\* input is not shown because the default is out of range
reset(old_default, default, min_value, max_value) ==
    default # old_default /\ ~number_input_raises(default, min_value, max_value)

\* lines 668-676: the Search button with a link in the text field
Scrape ==
    /\ \E result \in ScrapeResults :
          LET sd == IF result # None THEN result ELSE scraped_data
              y  == default_year(sd)
              f  == default_fob(sd)
              reset_year == reset(default_year(scraped_data), y,
                                  2015, current_year)
              reset_fob  == reset(default_fob(scraped_data), f, 1000, 200000)
          IN  /\ scraped_data' = sd
              /\ year' = IF reset_year /\ y # None THEN y.some ELSE year
              /\ fob_input' = IF reset_fob /\ f # None THEN f.some
                              ELSE fob_input
              /\ empty_inputs' =
                    {w \in {"year_input", "fob_input"} :
                        \/ w = "year_input" /\ reset_year /\ y = None
                        \/ w = "fob_input" /\ reset_fob /\ f = None
                        \/ w = "year_input" /\ ~reset_year /\ w \in empty_inputs
                        \/ w = "fob_input" /\ ~reset_fob /\ w \in empty_inputs}
    /\ UNCHANGED <<fnvars, current_year, make_text, model_text, engine_size,
                   freight_cost, insurance_cost, auto_estimate, summary_data,
                   uploaded_file>>
    /\ Sidebar
    /\ KeepSelection
    /\ StoreSelection
    /\ NoResult

NextScrape ==
    \/ Scrape
    \/ SetMake
    \/ SetModel
    \/ SetYear
    \/ SetFobValue
    \/ ToggleAutoEstimate
    \/ Calculate

SpecScrape == Init /\ [][NextScrape]_vars

\* C18 (as claimed): whatever the scrapes returned, the form is shown down
\* to the Calculate button, and the year and FOB it hands over are defined
\* numbers within the form's bounds: year 2015..current year, FOB
\* 1000..200000 USD (or the estimator's value).
C18_ScrapeNeverBlocksNorCorrupts ==
    /\ ~YearInputRaises(form)
    /\ ~FobInputRaises(form)
    /\ empty_inputs = {}
    /\ year >= 2015 /\ year <= current_year
    /\ fob_input >= 1000 /\ fob_input <= 200000
====
